---- MODULE Spec2Model ----
(***************************************************************************)
(* Control Pilot helper firmware (firmware/esp32s3_cp/src/main.cpp): the   *)
(* JSON dispatcher with its contactor interlock and keepalive failsafe,    *)
(* and the pilot-state estimator with the PWM output policy.               *)
(*                                                                         *)
(* Four specifications share the variables:                                *)
(*   Spec    loop() as it reads millis(), receives the JSON-RPC requests   *)
(*           that write the interlock state and runs the keepalive check   *)
(*           (lines 575-577, 677-715, 444-496).                            *)
(*   SpecRpc the same loop with every method of the JSON-RPC path.         *)
(*   SpecCP  the periodic status block of loop() and the legacy commands   *)
(*           that drive the PWM output (lines 578-660, 288-381, 498-549).  *)
(*   SpecTh  the periodic status block and the legacy commands that write  *)
(*           the thresholds (lines 383-429, 509-543).                      *)
(* The status block and the legacy commands touch none of the interlock    *)
(* state; in Spec the time they take is an Elapse step.                    *)
(***************************************************************************)
EXTENDS Integers, Naturals, Sequences, FiniteSets, TLC

VARIABLES
  \* ---- time and the position inside loop()
  clock,              \* millis(): 32-bit millisecond counter
  now,                \* loop()'s local `now`, read once at the top
  pc,                 \* "top": between iterations, "rx": inside the receive loops
  steps,              \* number of steps that advanced the clock (bounded)
  \* ---- peripheral JSON-RPC state
  g_armed_until_ms, g_last_ping_ms, g_contactor_cmd, g_contactor_aux,
  g_periph_mode, g_meter_stream, g_temps_stream,
  \* ---- what the last step received and wrote
  req,                \* the line the last step dispatched (NoReq when none)
  out,                \* the frames the last step wrote to the Pi link
  \* ---- history (not in the program): real elapsed time, never wrapped
  armed_ever,         \* a sys.arm has been processed
  arm_age,            \* ms since the most recent sys.arm
  ping_age,           \* ms since the most recent sys.ping (since power-up if none)
  sets_since_arm,     \* contactor.set requests that returned a result since sys.arm
  \* ---- control pilot state
  g_mode, g_pwm_enabled, g_pwm_duty_pct, g_pwm_freq_hz,
  ledc_duty,          \* duty register of the LEDC channel (last ledcWrite)
  g_last_output_duty_pct,
  g_last_cp_state, g_pending_state, g_pending_count,
  g_th_12, g_th_9, g_th_6, g_th_3, g_th_0, g_hys, g_hys_ab,
  \* ---- observations (not in the program)
  ret,                \* the value the last call of a pure function returned
  last_same,          \* the last tick's candidate was the committed state
  flipped_from,       \* the state the last tick left, when it committed a
                      \* differing candidate right after such a tick ("-" else)
  run_cand, run_len,  \* the candidate of the accepted ticks that ended with the
                      \* last tick, and how many they are (counted up to 4)
  \* ---- line framing
  line_uart, line_usb, \* loop()'s static line buffers: length and what the text is
  rx_bytes            \* observation: per transport, the bytes other than CR
                      \* received since its last newline

timeVars == <<clock, now, pc, steps>>
periphVars == <<g_armed_until_ms, g_last_ping_ms, g_contactor_cmd, g_contactor_aux,
                g_periph_mode, g_meter_stream, g_temps_stream>>
histVars == <<armed_ever, arm_age, ping_age, sets_since_arm>>
thVars == <<g_th_12, g_th_9, g_th_6, g_th_3, g_th_0, g_hys, g_hys_ab>>
estVars == <<g_last_cp_state, g_pending_state, g_pending_count>>
pwmVars == <<g_mode, g_pwm_enabled, g_pwm_duty_pct, g_pwm_freq_hz, ledc_duty,
             g_last_output_duty_pct>>
obsVars == <<ret, last_same, flipped_from, run_cand, run_len>>
lineVars == <<line_uart, line_usb, rx_bytes>>
cpVars == <<pwmVars, estVars, thVars, obsVars, lineVars>>
vars == <<timeVars, periphVars, histVars, req, out, cpVars>>

(***************************************************************************)
(* 32-bit arithmetic.  A uint32_t is kept as two 16-bit halves, so that    *)
(* millis() wraps at 2^32 exactly as in the firmware.                      *)
(***************************************************************************)
Base == 2^16
Half == 2^15

\* the uint32_t holding the small natural n
W(n) == [hi |-> (n \div Base) % Base, lo |-> n % Base]

\* a + b on uint32_t
Add32(a, b) ==
  LET s == a.lo + b.lo
  IN  [hi |-> (a.hi + b.hi + s \div Base) % Base, lo |-> s % Base]

\* a - b on uint32_t
Sub32(a, b) ==
  LET borrow == IF a.lo < b.lo THEN 1 ELSE 0
  IN  [hi |-> (a.hi - b.hi - borrow + 2 * Base) % Base,
       lo |-> (a.lo - b.lo + Base) % Base]

\* (int32_t)x > 0
Int32Positive(x) == x.hi < Half /\ (x.hi > 0 \/ x.lo > 0)

\* x > n for a small natural n
GtSmall(x, n) == x.hi > 0 \/ x.lo > n

\* a + b without wrapping (the history's elapsed times)
AddWide(a, b) ==
  LET s == a.lo + b.lo
  IN  [hi |-> a.hi + b.hi + s \div Base, lo |-> s % Base]

\* ---- program constants
ArmWindowMs == 1500
KeepaliveMs == 6000
AuxSettleMs == 40
ConfirmSettleMs == 60
ErrNotArmed == 1001
ErrAuxMismatch == 1002
ErrInvalidRequest == -32600
ErrUnknownMethod == -32601
CP_1_PWM_FREQUENCY == 1000
CP_1_MAX_DUTY_CYCLE == 4095
CP_1_ADC_THRESHOLD_12 == 2400
CP_1_ADC_THRESHOLD_9 == 2000
CP_1_ADC_THRESHOLD_6 == 1700
CP_1_ADC_THRESHOLD_3 == 1450
CP_1_ADC_THRESHOLD_0 == 1250
CP_1_ADC_HYSTERESIS == 150
CP_1_ADC_HYSTERESIS_A2B == 100

\* ---- bounds of the model
MaxSteps == 3          \* steps that advance the clock
BootMs == 1            \* millis() when loop() first runs

\* time that passes while the receive loops run (per Elapse step)
RxDeltas == {W(1)}
\* lengths of the idle stretches: one tick, the armed window, the keepalive
\* window, and half the range of the counter
IdleDeltas == {W(1), W(ArmWindowMs), W(KeepaliveMs), [hi |-> Half, lo |-> 0]}
\* ids as they appear in a request
RawIds == {7, -1}
\* the id of the requests in Spec
InterlockIds == {7}

(***************************************************************************)
(* Frames                                                                  *)
(***************************************************************************)
NoStatus == [state |-> "-", mode |-> "-", enabled |-> FALSE, duty |-> 0, hz |-> 0,
             out |-> 0, thresh |-> {}]
\* mv: the plateau the step measured on the pilot line (0: it measured none)
NoReq == [kind |-> "none", name |-> "", id |-> 0, on |-> FALSE, mv |-> 0]
RpcReq(rid, method, on) ==
  [kind |-> "rpc", name |-> method, id |-> rid, on |-> on, mv |-> 0]
LegacyReq(cmd) == [kind |-> "legacy", name |-> cmd, id |-> 0, on |-> FALSE, mv |-> 0]
\* the periodic block ran and its burst gave the plateau mv
TickReq(mv) == [kind |-> "tick", name |-> "", id |-> 0, on |-> FALSE, mv |-> mv]

\* doc["id"] | 0 read as uint32_t: anything that is not a uint32_t gives 0
IdOf(rid) == IF rid >= 0 THEN rid ELSE 0

ResResult(id, ts) ==
  [type |-> "res", id |-> id, ts |-> ts, keys |-> {"type", "id", "ts", "result"},
   code |-> 0, msg |-> "", st |-> NoStatus]
ResError(id, ts, code, msg) ==
  [type |-> "res", id |-> id, ts |-> ts, keys |-> {"type", "id", "ts", "error"},
   code |-> code, msg |-> msg, st |-> NoStatus]
EvtFailsafe(ts) ==
  [type |-> "evt", id |-> 0, ts |-> ts, keys |-> {"type", "ts", "id", "method", "result"},
   code |-> 0, msg |-> "evt:failsafe.keepalive", st |-> NoStatus]
\* evt:meter.tick / evt:temps.tick
EvtTick(method, ts) ==
  [type |-> "evt", id |-> 0, ts |-> ts, keys |-> {"type", "ts", "id", "method", "result"},
   code |-> 0, msg |-> method, st |-> NoStatus]
LegacyFrame(type, msg) ==
  [type |-> type, id |-> 0, ts |-> W(0),
   keys |-> IF msg = "" THEN {"type"} ELSE {"type", "msg"},
   code |-> 0, msg |-> msg, st |-> NoStatus]
OkCmdFrame(cmd) ==
  [type |-> "ok", id |-> 0, ts |-> W(0), keys |-> {"type", "cmd"},
   code |-> 0, msg |-> cmd, st |-> NoStatus]

(***************************************************************************)
(* process_line, JSON-RPC path (type = "req")                              *)
(***************************************************************************)
\* everything of a request step that a handler does not name
RpcFrame == /\ pc = "rx"
            /\ UNCHANGED <<now, pc, cpVars>>

NoTimePasses == UNCHANGED <<clock, steps, arm_age, ping_age>>

\* d ms pass inside a step
TimePasses(d) == /\ steps < MaxSteps
                 /\ clock' = Add32(clock, d)
                 /\ steps' = steps + 1

\* method missing or empty: error -32600
MissingMethod(rid) ==
  /\ RpcFrame
  /\ req' = RpcReq(rid, "", FALSE)
  /\ out' = <<ResError(IdOf(rid), clock, ErrInvalidRequest, "invalid_request")>>
  /\ NoTimePasses
  /\ UNCHANGED <<periphVars, armed_ever, sets_since_arm>>

SysPing(rid) ==
  /\ RpcFrame
  /\ req' = RpcReq(rid, "sys.ping", FALSE)
  /\ g_last_ping_ms' = clock
  /\ out' = <<ResResult(IdOf(rid), clock)>>
  /\ ping_age' = W(0)
  /\ UNCHANGED <<clock, steps, arm_age, armed_ever, sets_since_arm>>
  /\ UNCHANGED <<g_armed_until_ms, g_contactor_cmd, g_contactor_aux, g_periph_mode,
                 g_meter_stream, g_temps_stream>>

\* sys.info, contactor.check, temps.read, meter.read: a result, no state written
ReadOnlyMethods == {"sys.info", "contactor.check", "temps.read", "meter.read"}
ReadOnlyMethod(rid, m) ==
  /\ RpcFrame
  /\ req' = RpcReq(rid, m, FALSE)
  /\ out' = <<ResResult(IdOf(rid), clock)>>
  /\ NoTimePasses
  /\ UNCHANGED <<periphVars, armed_ever, sets_since_arm>>

SysArm(rid) ==
  /\ RpcFrame
  /\ req' = RpcReq(rid, "sys.arm", FALSE)
  /\ g_armed_until_ms' = Add32(clock, W(ArmWindowMs))
  /\ out' = <<ResResult(IdOf(rid), clock)>>
  /\ armed_ever' = TRUE
  /\ arm_age' = W(0)
  /\ sets_since_arm' = 0
  /\ UNCHANGED <<clock, steps, ping_age>>
  /\ UNCHANGED <<g_last_ping_ms, g_contactor_cmd, g_contactor_aux, g_periph_mode,
                 g_meter_stream, g_temps_stream>>

\* params.mode | "sim": anything but "hw" selects the simulation
SysSetMode(rid, m) ==
  /\ RpcFrame
  /\ req' = RpcReq(rid, "sys.set_mode", FALSE)
  /\ g_periph_mode' = IF m = "hw" THEN "hw" ELSE "sim"
  /\ out' = <<ResResult(IdOf(rid), clock)>>
  /\ NoTimePasses
  /\ UNCHANGED <<g_armed_until_ms, g_last_ping_ms, g_contactor_cmd, g_contactor_aux,
                 g_meter_stream, g_temps_stream, armed_ever, sets_since_arm>>

\* the armed test of contactor.set: (int32_t)(millis() - g_armed_until_ms) > 0
NotArmed(t) == Int32Positive(Sub32(t, g_armed_until_ms))

\* the auxiliary contact as read back 40 ms after the coil is driven
AuxReadback(on) == on

\* a faulty contactor.set that drives the coil and reports success without
\* reading the auxiliary contact back (C2 must tell it from the firmware's)
ContactorSetEffectUnverified(on) ==
  [cmd |-> on, aux |-> g_contactor_aux, code |-> 0]

\* contactor.set once armed: drive, read back, verify
ContactorSetEffect(on) ==
  LET cmd1 == on
      aux1 == AuxReadback(on)
      aux_ok == (aux1 = cmd1)
  IN  IF ~aux_ok /\ on
      THEN [cmd |-> FALSE, aux |-> FALSE, code |-> ErrAuxMismatch]
      ELSE [cmd |-> cmd1, aux |-> aux1, code |-> 0]

ContactorSet(rid, on) ==
  /\ RpcFrame
  /\ req' = RpcReq(rid, "contactor.set", on)
  /\ IF NotArmed(clock)
     THEN /\ out' = <<ResError(IdOf(rid), clock, ErrNotArmed, "not_armed")>>
          /\ NoTimePasses
          /\ UNCHANGED <<g_contactor_cmd, g_contactor_aux, sets_since_arm>>
     ELSE LET d == W(AuxSettleMs + ConfirmSettleMs)
              eff == ContactorSetEffect(on)
          IN  /\ TimePasses(d)
              /\ arm_age' = AddWide(arm_age, d)
              /\ ping_age' = AddWide(ping_age, d)
              /\ g_contactor_cmd' = eff.cmd
              /\ g_contactor_aux' = eff.aux
              /\ out' = <<IF eff.code = 0
                          THEN ResResult(IdOf(rid), clock')
                          ELSE ResError(IdOf(rid), clock', eff.code, "aux_mismatch")>>
              /\ sets_since_arm' = IF eff.code = 0 THEN sets_since_arm + 1
                                                   ELSE sets_since_arm
  /\ UNCHANGED <<g_armed_until_ms, g_last_ping_ms, g_periph_mode, g_meter_stream,
                 g_temps_stream, armed_ever>>

StreamMethods == {"meter.stream_start", "meter.stream_stop",
                  "temps.stream_start", "temps.stream_stop"}
StreamCtl(rid, m) ==
  /\ RpcFrame
  /\ req' = RpcReq(rid, m, FALSE)
  /\ g_meter_stream' = CASE m = "meter.stream_start" -> TRUE
                         [] m = "meter.stream_stop" -> FALSE
                         [] OTHER -> g_meter_stream
  /\ g_temps_stream' = CASE m = "temps.stream_start" -> TRUE
                         [] m = "temps.stream_stop" -> FALSE
                         [] OTHER -> g_temps_stream
  /\ out' = <<ResResult(IdOf(rid), clock)>>
  /\ NoTimePasses
  /\ UNCHANGED <<g_armed_until_ms, g_last_ping_ms, g_contactor_cmd, g_contactor_aux,
                 g_periph_mode, armed_ever, sets_since_arm>>

\* a faulty dispatcher that drops a request it does not recognise (C6 must
\* tell it from the firmware's)
UnknownMethodSilent(rid, m) ==
  /\ RpcFrame
  /\ req' = RpcReq(rid, m, FALSE)
  /\ out' = <<>>
  /\ NoTimePasses
  /\ UNCHANGED <<periphVars, armed_ever, sets_since_arm>>

\* a method no branch recognises: error -32601
UnknownMethods == {"contactor.toggle"}
UnknownMethod(rid, m) ==
  /\ RpcFrame
  /\ req' = RpcReq(rid, m, FALSE)
  /\ out' = <<ResError(IdOf(rid), clock, ErrUnknownMethod, "unknown_method")>>
  /\ NoTimePasses
  /\ UNCHANGED <<periphVars, armed_ever, sets_since_arm>>

RpcMethods == {"sys.ping", "sys.arm", "sys.set_mode", "contactor.set"}
                 \cup ReadOnlyMethods \cup StreamMethods

(***************************************************************************)
(* loop(): the timestamp, the receive loops, the keepalive failsafe        *)
(***************************************************************************)
\* const uint32_t now = millis();
LoopBegin ==
  /\ pc = "top"
  /\ now' = clock
  /\ pc' = "rx"
  /\ req' = NoReq
  /\ out' = <<>>
  /\ UNCHANGED <<clock, steps, periphVars, histVars, cpVars>>

\* time passes while the iteration runs (the sampling burst, the status
\* frame, a legacy command, bytes still arriving)
Elapse(d) ==
  /\ pc = "rx"
  /\ TimePasses(d)
  /\ arm_age' = AddWide(arm_age, d)
  /\ ping_age' = AddWide(ping_age, d)
  /\ req' = NoReq
  /\ out' = <<>>
  /\ UNCHANGED <<now, pc, periphVars, armed_ever, sets_since_arm, cpVars>>

\* a faulty keepalive test that forgets the contactor (C3 must tell it from
\* the firmware's)
KeepaliveExpiredAnyCmd(t) == GtSmall(Sub32(t, g_last_ping_ms), KeepaliveMs)

\* (now - g_last_ping_ms) > 6000 && g_contactor_cmd
KeepaliveExpired(t) == GtSmall(Sub32(t, g_last_ping_ms), KeepaliveMs) /\ g_contactor_cmd

\* the peripheral stream block: when the 1000 ms period is due, one event
\* per stream that is switched on
StreamFrames(due, t) ==
  IF due THEN (IF g_meter_stream THEN <<EvtTick("evt:meter.tick", t)>> ELSE <<>>)
                \o (IF g_temps_stream THEN <<EvtTick("evt:temps.tick", t)>> ELSE <<>>)
         ELSE <<>>

\* the end of an iteration: no more bytes, the stream block, then the
\* failsafe check, both on `now`
LoopEnd(due) ==
  /\ pc = "rx"
  /\ pc' = "top"
  /\ req' = NoReq
  /\ IF KeepaliveExpired(now)
     THEN /\ g_contactor_cmd' = FALSE
          /\ g_contactor_aux' = FALSE
          /\ out' = StreamFrames(due, now) \o <<EvtFailsafe(now)>>
     ELSE /\ UNCHANGED <<g_contactor_cmd, g_contactor_aux>>
          /\ out' = StreamFrames(due, now)
  /\ UNCHANGED <<clock, now, steps, histVars, cpVars>>
  /\ UNCHANGED <<g_armed_until_ms, g_last_ping_ms, g_periph_mode, g_meter_stream,
                 g_temps_stream>>

\* d ms of iterations with nothing to receive.  The idle loop reads millis()
\* at least once per millisecond, so the failsafe check sees every value of
\* the counter in (clock, clock + d]; the unsigned difference grows by one
\* per millisecond, so the check fires in the stretch exactly if it fires on
\* the first or on the last value.  out keeps the frames of the iteration
\* that fired, or of the last one.
IdleFor(d, due) ==
  LET first == Add32(clock, W(1))
      last == Add32(clock, d)
      fires == KeepaliveExpired(first) \/ KeepaliveExpired(last)
      at == IF KeepaliveExpired(first) THEN first
            ELSE Add32(g_last_ping_ms, W(KeepaliveMs + 1))
  IN  /\ pc = "top"
      /\ TimePasses(d)
      /\ now' = clock'
      /\ arm_age' = AddWide(arm_age, d)
      /\ ping_age' = AddWide(ping_age, d)
      /\ req' = NoReq
      /\ IF fires
         THEN /\ g_contactor_cmd' = FALSE
              /\ g_contactor_aux' = FALSE
              /\ out' = StreamFrames(due, at) \o <<EvtFailsafe(at)>>
         ELSE /\ UNCHANGED <<g_contactor_cmd, g_contactor_aux>>
              /\ out' = StreamFrames(due, last)
      /\ UNCHANGED <<pc, armed_ever, sets_since_arm, cpVars>>
      /\ UNCHANGED <<g_armed_until_ms, g_last_ping_ms, g_periph_mode, g_meter_stream,
                     g_temps_stream>>

(***************************************************************************)
(* Output policy and pilot-state estimator                                 *)
(***************************************************************************)
GuardMarginMv == 150
DcAutoDutyPct == 5

pct_to_duty(pct) ==
  IF pct = 0 THEN 0
  ELSE IF pct >= 100 THEN CP_1_MAX_DUTY_CYCLE
  ELSE (CP_1_MAX_DUTY_CYCLE * pct) \div 100

\* the duty apply_pwm_manual() writes for an enable flag and a duty percentage
ManualDuty(enabled, pct) == IF enabled THEN pct_to_duty(pct) ELSE CP_1_MAX_DUTY_CYCLE

\* a test that takes no state for connected, so that no tick is refused (C21
\* must tell it from the firmware's)
is_connected_state_never(st) == FALSE

is_connected_state(st) == st \in {"B", "C", "D"}

\* a faulty output policy that holds the line idle in every state (C11 must
\* tell it from the firmware's)
DcAutoDutyIdle(st) == CP_1_MAX_DUTY_CYCLE

\* the duty apply_dc_auto_output(st) writes
DcAutoDuty(st) == IF is_connected_state(st) THEN pct_to_duty(DcAutoDutyPct)
                                            ELSE CP_1_MAX_DUTY_CYCLE

\* a faulty classifier that gives the boundary t9 itself to the band below
\* (C14 must tell it from the firmware's)
cp_state_from_mv_open(mv) ==
  IF mv >= g_th_12 THEN "A"
  ELSE IF mv > g_th_9 THEN "B"
  ELSE IF mv >= g_th_6 THEN "C"
  ELSE IF mv >= g_th_3 THEN "D"
  ELSE IF mv >= g_th_0 THEN "E"
  ELSE "F"

cp_state_from_mv(mv) ==
  IF mv >= g_th_12 THEN "A"
  ELSE IF mv >= g_th_9 THEN "B"
  ELSE IF mv >= g_th_6 THEN "C"
  ELSE IF mv >= g_th_3 THEN "D"
  ELSE IF mv >= g_th_0 THEN "E"
  ELSE "F"

\* an estimator without hysteresis (C15 must tell it from the firmware's)
cp_state_without_hysteresis(mv, last) == cp_state_from_mv(mv)

cp_state_with_hysteresis(mv, last) ==
  CASE last = "A" -> IF mv < g_th_12 - g_hys_ab THEN cp_state_from_mv(mv) ELSE "A"
    [] last = "B" -> IF mv >= g_th_12 + g_hys THEN "A"
                     ELSE IF mv < g_th_9 - g_hys THEN cp_state_from_mv(mv) ELSE "B"
    [] last = "C" -> IF mv >= g_th_9 + g_hys THEN "B"
                     ELSE IF mv < g_th_6 - g_hys THEN cp_state_from_mv(mv) ELSE "C"
    [] last = "D" -> IF mv >= g_th_6 + g_hys THEN "C"
                     ELSE IF mv < g_th_3 - g_hys THEN cp_state_from_mv(mv) ELSE "D"
    [] last = "E" -> IF mv >= g_th_3 + g_hys THEN "D"
                     ELSE IF mv < g_th_0 - g_hys THEN "F" ELSE "E"
    [] OTHER -> IF mv >= g_th_0 + g_hys THEN "E" ELSE "F"

mv_strong_in_state(mv, st) ==
  CASE st = "A" -> mv >= g_th_12 + g_hys
    [] st = "B" -> mv >= g_th_9 + g_hys /\ mv < g_th_12 - g_hys
    [] st = "C" -> mv >= g_th_6 + g_hys /\ mv < g_th_9 - g_hys
    [] st = "D" -> mv >= g_th_3 + g_hys /\ mv < g_th_6 - g_hys
    [] st = "E" -> mv >= g_th_0 + g_hys /\ mv < g_th_3 - g_hys
    [] OTHER -> mv < g_th_0 - g_hys

\* the thresh object of send_status_json()
ThreshAll == {<<"t12", g_th_12>>, <<"t9", g_th_9>>, <<"t6", g_th_6>>, <<"t3", g_th_3>>,
              <<"t0", g_th_0>>, <<"hys", g_hys>>, <<"hys_ab", g_hys_ab>>}
\* the thresh object of the periodic status frame
ThreshTick == {<<"t12", g_th_12>>, <<"t9", g_th_9>>, <<"t6", g_th_6>>, <<"t3", g_th_3>>,
               <<"t0", g_th_0>>, <<"hys", g_hys>>}

StatusKeys == {"type", "cp_mv", "cp_mv_robust", "state", "mode", "pwm", "thresh"}
StatusWith(thresh) ==
  [type |-> "status", id |-> 0, ts |-> W(0), keys |-> StatusKeys, code |-> 0, msg |-> "",
   st |-> [state |-> g_last_cp_state,
           mode |-> IF g_mode = "DC_AUTO" THEN "dc" ELSE "manual",
           enabled |-> g_pwm_enabled, duty |-> g_pwm_duty_pct, hz |-> g_pwm_freq_hz,
           out |-> g_last_output_duty_pct, thresh |-> thresh]]
\* send_status_json(), on the state it is called in
StatusFrame == StatusWith(ThreshAll)
\* the frame the periodic block builds itself
TickStatusFrame == StatusWith(ThreshTick)

\* the plateaus a sampling burst may report (smax), in mV
MvSet == {1000, 1800, 2200, 2600, 3000}

\* everything of a step of SpecCP that is not control pilot state
CpFrame == UNCHANGED <<timeVars, periphVars, histVars>>

\* the periodic block of loop(): sample, estimate, apply the output policy, report
Tick(mv) ==
  LET prev == g_last_cp_state
      cand == cp_state_with_hysteresis(mv, prev)
      transient_low == is_connected_state(prev) /\ mv < g_th_0 - GuardMarginMv
      confirm_needed == IF mv_strong_in_state(mv, cand) THEN 2 ELSE 4
      a_blip == is_connected_state(prev) /\ cand = "A"
                  /\ mv < g_th_12 + g_hys + GuardMarginMv
  IN  /\ CpFrame
      /\ req' = TickReq(mv)
      /\ IF ~transient_low /\ ~a_blip
         THEN IF cand # prev
              THEN IF g_pending_state = cand
                   THEN IF g_pending_count + 1 >= confirm_needed
                        THEN /\ g_last_cp_state' = cand
                             /\ g_pending_count' = 0
                             /\ UNCHANGED g_pending_state
                        ELSE /\ g_pending_count' = g_pending_count + 1
                             /\ UNCHANGED <<g_last_cp_state, g_pending_state>>
                   ELSE /\ g_pending_state' = cand
                        /\ g_pending_count' = 1
                        /\ UNCHANGED g_last_cp_state
              ELSE /\ g_pending_count' = 0
                   /\ g_pending_state' = cand
                   /\ g_last_cp_state' = cand
         ELSE /\ g_pending_count' = IF g_pending_count > 0 THEN g_pending_count - 1 ELSE 0
              /\ UNCHANGED <<g_last_cp_state, g_pending_state>>
      /\ ledc_duty' = IF g_mode = "DC_AUTO" THEN DcAutoDuty(g_last_cp_state')
                                            ELSE ledc_duty
      /\ g_last_output_duty_pct' =
           IF g_mode = "DC_AUTO"
           THEN (IF is_connected_state(g_last_cp_state') THEN DcAutoDutyPct ELSE 100)
           ELSE (IF g_pwm_enabled THEN g_pwm_duty_pct ELSE 100)
      /\ UNCHANGED <<g_mode, g_pwm_enabled, g_pwm_duty_pct, g_pwm_freq_hz, thVars>>
      /\ out' = <<TickStatusFrame'>>
      /\ last_same' = (cand = prev)
      /\ flipped_from' = IF last_same /\ cand # prev /\ g_last_cp_state' # prev
                         THEN prev ELSE "-"
      /\ run_cand' = IF transient_low \/ a_blip THEN "-" ELSE cand
      /\ run_len' = IF transient_low \/ a_blip THEN 0
                    ELSE IF cand # run_cand THEN 1
                    ELSE IF run_len < 4 THEN run_len + 1 ELSE 4
      /\ UNCHANGED <<ret, lineVars>>

(***************************************************************************)
(* process_line, legacy command path (cmd = ...)                           *)
(***************************************************************************)
\* ---- bounds and inputs of the legacy commands
\* an optional key of a command object: <<>> when absent, <<v>> when present
DutyInputs == {<<>>, <<-5>>, <<40>>, <<150>>}
EnableInputs == {<<>>, <<TRUE>>, <<FALSE>>}
FreqInputs == {100, 20000}
ModeInputs == {"dc", "manual", "auto"}
\* cp.set_thresholds objects: the keys present and their values
Patches == { ("t12" :> 2500) @@ ("hys_ab" :> 60),
             ("t9" :> 2450),
             ("t6" :> 1650) @@ ("hys" :> -20) }
\* the averaged idle plateau cp.auto_cal measures (0: no burst was valid)
CalPlateaus == {0, 2799, 2800, 2999}

MinFreqHz == 500
MaxFreqHz == 5000
CalFloorMv == 2800

Clamp(x, lo, hi) == IF x < lo THEN lo ELSE IF x > hi THEN hi ELSE x

\* a faulty set_pwm without the mode test (C7 must tell it from the firmware's)
handle_cmd_set_pwm_unguarded(d, en) ==
  /\ CpFrame
  /\ UNCHANGED <<obsVars, lineVars>>
  /\ req' = LegacyReq("set_pwm")
  /\ g_pwm_duty_pct' = IF Len(d) > 0 THEN Clamp(d[1], 0, 100) ELSE g_pwm_duty_pct
  /\ g_pwm_enabled' = IF Len(en) > 0 THEN en[1] ELSE g_pwm_enabled
  /\ ledc_duty' = ManualDuty(g_pwm_enabled', g_pwm_duty_pct')
  /\ UNCHANGED <<g_mode, g_pwm_freq_hz, g_last_output_duty_pct, estVars, thVars>>
  /\ out' = <<StatusFrame'>>

handle_cmd_set_pwm(d, en) ==
  /\ CpFrame
  /\ UNCHANGED <<obsVars, lineVars>>
  /\ req' = LegacyReq("set_pwm")
  /\ IF g_mode # "MANUAL"
     THEN /\ out' = <<LegacyFrame("error", "mode_dc_auto")>>
          /\ UNCHANGED cpVars
     ELSE /\ g_pwm_duty_pct' = IF Len(d) > 0 THEN Clamp(d[1], 0, 100) ELSE g_pwm_duty_pct
          /\ g_pwm_enabled' = IF Len(en) > 0 THEN en[1] ELSE g_pwm_enabled
          /\ ledc_duty' = ManualDuty(g_pwm_enabled', g_pwm_duty_pct')
          /\ UNCHANGED <<g_mode, g_pwm_freq_hz, g_last_output_duty_pct, estVars, thVars>>
          /\ out' = <<StatusFrame'>>

\* obj["enable"].as<bool>(): a missing key reads as false
handle_cmd_enable_pwm(en) ==
  /\ CpFrame
  /\ UNCHANGED <<obsVars, lineVars>>
  /\ req' = LegacyReq("enable_pwm")
  /\ IF g_mode # "MANUAL"
     THEN /\ out' = <<LegacyFrame("error", "mode_dc_auto")>>
          /\ UNCHANGED cpVars
     ELSE /\ g_pwm_enabled' = en
          /\ ledc_duty' = ManualDuty(en, g_pwm_duty_pct)
          /\ UNCHANGED <<g_mode, g_pwm_duty_pct, g_pwm_freq_hz, g_last_output_duty_pct,
                         estVars, thVars>>
          /\ out' = <<StatusFrame'>>

\* configure_pwm(): ledcSetup and ledcAttachPin leave the duty register as it
\* is; only MANUAL mode writes the duty again
ConfiguredDuty == IF g_mode = "MANUAL" THEN ManualDuty(g_pwm_enabled, g_pwm_duty_pct)
                                       ELSE ledc_duty

handle_cmd_set_freq(hz) ==
  /\ CpFrame
  /\ UNCHANGED <<obsVars, lineVars>>
  /\ req' = LegacyReq("set_freq")
  /\ g_pwm_freq_hz' = Clamp(hz, MinFreqHz, MaxFreqHz)
  /\ ledc_duty' = ConfiguredDuty
  /\ UNCHANGED <<g_mode, g_pwm_enabled, g_pwm_duty_pct, g_last_output_duty_pct,
                 estVars, thVars>>
  /\ out' = <<StatusFrame'>>

handle_cmd_set_mode(m) ==
  /\ CpFrame
  /\ UNCHANGED <<obsVars, lineVars>>
  /\ req' = LegacyReq("set_mode")
  /\ IF m \in {"dc", "manual"}
     THEN /\ g_mode' = IF m = "dc" THEN "DC_AUTO" ELSE "MANUAL"
          /\ UNCHANGED <<g_pwm_enabled, g_pwm_duty_pct, g_pwm_freq_hz, ledc_duty,
                         g_last_output_duty_pct, estVars, thVars>>
          /\ out' = <<StatusFrame'>>
     ELSE /\ out' = <<LegacyFrame("error", "bad_mode")>>
          /\ UNCHANGED cpVars

\* the value a key of the patch p gives a threshold, or its old value
Patched(p, key, old) == IF key \in DOMAIN p THEN p[key] ELSE old
PatchedHys(p, key, old) ==
  IF key \in DOMAIN p THEN (IF p[key] > 0 THEN p[key] ELSE 0) ELSE old

CmdSetThresholds(p) ==
  /\ CpFrame
  /\ UNCHANGED <<obsVars, lineVars>>
  /\ req' = LegacyReq("cp.set_thresholds")
  /\ g_th_12' = Patched(p, "t12", g_th_12)
  /\ g_th_9' = Patched(p, "t9", g_th_9)
  /\ g_th_6' = Patched(p, "t6", g_th_6)
  /\ g_th_3' = Patched(p, "t3", g_th_3)
  /\ g_th_0' = Patched(p, "t0", g_th_0)
  /\ g_hys' = PatchedHys(p, "hys", g_hys)
  /\ g_hys_ab' = PatchedHys(p, "hys_ab", g_hys_ab)
  /\ UNCHANGED <<pwmVars, estVars>>
  /\ out' = <<StatusFrame'>>

\* a faulty plausibility test that refuses a plateau exactly at the floor
\* (C12 must tell it from the firmware's)
CalAcceptedAboveFloor(v12) == v12 > CalFloorMv

\* auto_calibrate_thresholds(): whether the averaged plateau v12 is accepted
CalAccepted(v12) == v12 > 0 /\ v12 >= CalFloorMv
CalScale(v12, num, den) == (v12 * num) \div den

\* the duty left by auto_calibrate_thresholds(): idle while sampling, then the
\* previous mode's policy again
RestoredDuty == IF g_mode = "MANUAL" THEN ManualDuty(g_pwm_enabled, g_pwm_duty_pct)
                                     ELSE DcAutoDuty(g_last_cp_state)

\* a calibrator that stays in the sampling configuration (MANUAL, disabled;
\* main.cpp:389-391) instead of restoring the saved one (C13 must tell it from
\* the firmware's)
CmdAutoCalNoRestore(v12) ==
  /\ CpFrame
  /\ UNCHANGED <<obsVars, lineVars>>
  /\ req' = [LegacyReq("cp.auto_cal") EXCEPT !.mv = v12]
  /\ g_mode' = "MANUAL"
  /\ g_pwm_enabled' = FALSE
  /\ ledc_duty' = CP_1_MAX_DUTY_CYCLE
  /\ UNCHANGED <<g_pwm_duty_pct, g_pwm_freq_hz, g_last_output_duty_pct, estVars>>
  /\ IF CalAccepted(v12)
     THEN /\ g_th_12' = CalScale(v12, 105, 120)
          /\ g_th_9' = CalScale(v12, 75, 120)
          /\ g_th_6' = CalScale(v12, 45, 120)
          /\ g_th_3' = CalScale(v12, 15, 120)
          /\ UNCHANGED <<g_th_0, g_hys, g_hys_ab>>
          /\ out' = <<LegacyFrame("ok", ""), StatusFrame'>>
     ELSE /\ UNCHANGED thVars
          /\ out' = <<LegacyFrame("error", "cal_failed"), StatusFrame'>>

CmdAutoCal(v12) ==
  /\ CpFrame
  /\ UNCHANGED <<obsVars, lineVars>>
  /\ req' = [LegacyReq("cp.auto_cal") EXCEPT !.mv = v12]
  /\ ledc_duty' = RestoredDuty
  /\ UNCHANGED <<g_mode, g_pwm_enabled, g_pwm_duty_pct, g_pwm_freq_hz,
                 g_last_output_duty_pct, estVars>>
  /\ IF CalAccepted(v12)
     THEN /\ g_th_12' = CalScale(v12, 105, 120)
          /\ g_th_9' = CalScale(v12, 75, 120)
          /\ g_th_6' = CalScale(v12, 45, 120)
          /\ g_th_3' = CalScale(v12, 15, 120)
          /\ UNCHANGED <<g_th_0, g_hys, g_hys_ab>>
          /\ out' = <<LegacyFrame("ok", ""), StatusFrame'>>
     ELSE /\ UNCHANGED thVars
          /\ out' = <<LegacyFrame("error", "cal_failed"), StatusFrame'>>

\* a get_status that restarts the debounce as a tick's status block might
\* (C18 must tell it from the firmware's)
CmdGetStatusResetsPending ==
  /\ CpFrame
  /\ UNCHANGED <<obsVars, lineVars>>
  /\ req' = LegacyReq("get_status")
  /\ g_pending_count' = 0
  /\ UNCHANGED <<pwmVars, thVars, g_last_cp_state, g_pending_state>>
  /\ out' = <<StatusFrame>>

CmdGetStatus ==
  /\ CpFrame
  /\ UNCHANGED <<obsVars, lineVars>>
  /\ req' = LegacyReq("get_status")
  /\ UNCHANGED cpVars
  /\ out' = <<StatusFrame>>

\* MANUAL at 100 % for the requested time, then DC_AUTO on the committed state
CmdRestartSlacHint ==
  /\ CpFrame
  /\ UNCHANGED <<obsVars, lineVars>>
  /\ req' = LegacyReq("restart_slac_hint")
  /\ g_mode' = "DC_AUTO"
  /\ g_pwm_enabled' = TRUE
  /\ g_pwm_duty_pct' = 100
  /\ ledc_duty' = DcAutoDuty(g_last_cp_state)
  /\ UNCHANGED <<g_pwm_freq_hz, g_last_output_duty_pct, estVars, thVars>>
  /\ out' = <<OkCmdFrame("restart_slac_hint"), StatusFrame'>>

\* lines answered without touching any state: ping, cp.scan, an unknown cmd,
\* a missing cmd, and a line that is not JSON
ReplyOnlyLines == {"ping", "cp.scan", "bogus", "", "{not json"}
ReplyTo(name) ==
  CASE name = "ping" -> LegacyFrame("pong", "")
    [] name = "cp.scan" ->
         [type |-> "res", id |-> 0, ts |-> W(0), keys |-> {"type", "cmd", "mv"},
          code |-> 0, msg |-> "cp.scan", st |-> NoStatus]
    [] name = "" -> LegacyFrame("error", "missing_cmd")
    [] name = "{not json" -> LegacyFrame("error", "bad_json:InvalidInput")
    [] OTHER -> LegacyFrame("error", "unknown_cmd")

CmdReplyOnly(name) ==
  /\ CpFrame
  /\ UNCHANGED <<obsVars, lineVars>>
  /\ req' = LegacyReq(name)
  /\ UNCHANGED cpVars
  /\ out' = <<ReplyTo(name)>>

(***************************************************************************)
(* The state after setup()                                                 *)
(***************************************************************************)

InitPeriph ==
  /\ g_armed_until_ms = W(0)
  /\ g_last_ping_ms = W(0)
  /\ g_contactor_cmd = FALSE
  /\ g_contactor_aux = FALSE
  /\ g_periph_mode = "sim"
  /\ g_meter_stream = FALSE
  /\ g_temps_stream = FALSE

\* a line buffer: the number of bytes it holds and what they spell ("": nothing,
\* "ping": exactly the ping command, "junk": anything else, not JSON)
EmptyLine == [len |-> 0, text |-> ""]
Transports == {"uart", "usb"}

InitLine ==
  /\ line_uart = EmptyLine
  /\ line_usb = EmptyLine
  /\ rx_bytes = [t \in Transports |-> 0]

\* no call and no tick observed yet
InitObs ==
  /\ ret = "-"
  /\ last_same = FALSE
  /\ flipped_from = "-"
  /\ run_cand = "-"
  /\ run_len = 0

InitOutput ==
  /\ g_mode = "DC_AUTO"
  /\ g_pwm_enabled = FALSE
  /\ g_pwm_duty_pct = 0
  /\ g_pwm_freq_hz = CP_1_PWM_FREQUENCY
  /\ ledc_duty = CP_1_MAX_DUTY_CYCLE
  /\ g_last_output_duty_pct = 100
  /\ g_last_cp_state = "A"
  /\ g_pending_state = "A"
  /\ g_pending_count = 0

InitCP ==
  /\ InitOutput
  /\ g_th_12 = CP_1_ADC_THRESHOLD_12
  /\ g_th_9 = CP_1_ADC_THRESHOLD_9
  /\ g_th_6 = CP_1_ADC_THRESHOLD_6
  /\ g_th_3 = CP_1_ADC_THRESHOLD_3
  /\ g_th_0 = CP_1_ADC_THRESHOLD_0
  /\ g_hys = CP_1_ADC_HYSTERESIS
  /\ g_hys_ab = CP_1_ADC_HYSTERESIS_A2B

InitTime ==
  /\ clock = W(BootMs)
  /\ now = W(BootMs)
  /\ pc = "top"
  /\ steps = 0
  /\ req = NoReq
  /\ out = <<>>
  /\ armed_ever = FALSE
  /\ arm_age = W(0)
  /\ ping_age = W(BootMs)
  /\ sets_since_arm = 0

Init ==
  /\ clock = W(BootMs)
  /\ now = W(BootMs)
  /\ pc = "top"
  /\ steps = 0
  /\ InitPeriph
  /\ req = NoReq
  /\ out = <<>>
  /\ armed_ever = FALSE
  /\ arm_age = W(0)
  /\ ping_age = W(BootMs)
  /\ sets_since_arm = 0
  /\ InitCP
  /\ InitObs
  /\ InitLine

\* reset: the acknowledgement, then ESP.restart() runs setup() again
CmdReset ==
  /\ CpFrame
  /\ req' = LegacyReq("reset")
  /\ g_mode' = "DC_AUTO"
  /\ g_pwm_enabled' = FALSE
  /\ g_pwm_duty_pct' = 0
  /\ g_pwm_freq_hz' = CP_1_PWM_FREQUENCY
  /\ ledc_duty' = CP_1_MAX_DUTY_CYCLE
  /\ g_last_output_duty_pct' = 100
  /\ g_last_cp_state' = "A"
  /\ g_pending_state' = "A"
  /\ g_pending_count' = 0
  /\ g_th_12' = CP_1_ADC_THRESHOLD_12
  /\ g_th_9' = CP_1_ADC_THRESHOLD_9
  /\ g_th_6' = CP_1_ADC_THRESHOLD_6
  /\ g_th_3' = CP_1_ADC_THRESHOLD_3
  /\ g_th_0' = CP_1_ADC_THRESHOLD_0
  /\ g_hys' = CP_1_ADC_HYSTERESIS
  /\ g_hys_ab' = CP_1_ADC_HYSTERESIS_A2B
  /\ ret' = "-"
  /\ last_same' = FALSE
  /\ flipped_from' = "-"
  /\ run_cand' = "-"
  /\ run_len' = 0
  /\ line_uart' = EmptyLine
  /\ line_usb' = EmptyLine
  /\ rx_bytes' = [t \in Transports |-> 0]
  /\ out' = <<OkCmdFrame("reset")>>

\* SpecCP: the periodic block and the commands that drive the PWM output
NextCP ==
  \/ \E mv \in MvSet : Tick(mv)
  \/ \E d \in DutyInputs, en \in EnableInputs : handle_cmd_set_pwm(d, en)
  \/ \E en \in BOOLEAN : handle_cmd_enable_pwm(en)
  \/ \E hz \in FreqInputs : handle_cmd_set_freq(hz)
  \/ \E m \in ModeInputs : handle_cmd_set_mode(m)
  \/ CmdGetStatus
  \/ CmdRestartSlacHint
  \/ \E name \in ReplyOnlyLines : CmdReplyOnly(name)
  \/ CmdReset

\* SpecCal: calibration among ticks, mode changes and manual PWM settings
NextCal ==
  \/ \E mv \in MvSet : Tick(mv)
  \/ \E m \in ModeInputs : handle_cmd_set_mode(m)
  \/ \E d \in DutyInputs, en \in EnableInputs : handle_cmd_set_pwm(d, en)
  \/ \E v12 \in CalPlateaus : CmdAutoCal(v12)
  \/ CmdReset

\* SpecTh: the periodic block and the commands that write the thresholds
NextTh ==
  \/ \E mv \in MvSet : Tick(mv)
  \/ \E m \in ModeInputs : handle_cmd_set_mode(m)
  \/ \E p \in Patches : CmdSetThresholds(p)
  \/ \E v12 \in CalPlateaus : CmdAutoCal(v12)
  \/ CmdGetStatus
  \/ CmdReset

\* Spec: the requests that write the interlock state, in real time
Next ==
  \/ LoopBegin
  \/ \E d \in RxDeltas : Elapse(d)
  \/ \E rid \in InterlockIds : SysPing(rid)
  \/ \E rid \in InterlockIds : SysArm(rid)
  \/ \E rid \in InterlockIds, on \in BOOLEAN : ContactorSet(rid, on)
  \/ \E due \in BOOLEAN : LoopEnd(due)
  \/ \E d \in IdleDeltas, due \in BOOLEAN : IdleFor(d, due)

\* SpecRpc: every method of the JSON-RPC path, with idle stretches of one length
NextRpc ==
  \/ LoopBegin
  \/ \E rid \in RawIds : MissingMethod(rid)
  \/ \E rid \in RawIds : SysPing(rid)
  \/ \E rid \in RawIds, m \in ReadOnlyMethods : ReadOnlyMethod(rid, m)
  \/ \E rid \in RawIds : SysArm(rid)
  \/ \E rid \in RawIds, m \in {"hw", "sim", "bench"} : SysSetMode(rid, m)
  \/ \E rid \in RawIds, on \in BOOLEAN : ContactorSet(rid, on)
  \/ \E rid \in RawIds, m \in StreamMethods : StreamCtl(rid, m)
  \/ \E rid \in RawIds, m \in UnknownMethods : UnknownMethod(rid, m)
  \/ \E due \in BOOLEAN : LoopEnd(due)
  \/ \E d \in {W(ArmWindowMs)}, due \in BOOLEAN : IdleFor(d, due)

Spec == Init /\ [][Next]_vars
\* loop() is called again and again, an iteration ends once the receive
\* buffers are empty, and millis() keeps counting
FairSpec ==
  /\ Spec
  /\ WF_vars(LoopBegin)
  /\ WF_vars(\E due \in BOOLEAN : LoopEnd(due))
  /\ SF_vars(\E d \in IdleDeltas, due \in BOOLEAN : IdleFor(d, due))
SpecRpc == Init /\ [][NextRpc]_vars
SpecCP == Init /\ [][NextCP]_vars
SpecTh == Init /\ [][NextTh]_vars
SpecCal == Init /\ [][NextCal]_vars

(***************************************************************************)
(* Properties                                                              *)
(***************************************************************************)
IsFailsafe(f) == f.type = "evt" /\ f.msg = "evt:failsafe.keepalive"
\* the number of failsafe events among the frames o
FailsafeCount(o) == Cardinality({i \in 1..Len(o) : IsFailsafe(o[i])})
\* no sys.ping for more than the keepalive window while the contactor is on
Stale == g_contactor_cmd /\ GtSmall(ping_age, KeepaliveMs)
\* the model's clock has stopped (MaxSteps) before the 32-bit difference
\* the failsafe reads has passed the keepalive window
ClockStoppedShort ==
  steps = MaxSteps /\ ~GtSmall(Sub32(clock, g_last_ping_ms), KeepaliveMs)
Ordered == g_th_12 > g_th_9 /\ g_th_9 > g_th_6 /\ g_th_6 > g_th_3 /\ g_th_3 > g_th_0

\* C1: a contactor.set{on:true} processed before any sys.arm, or later than
\* 1500 ms after the most recent sys.arm, is answered with not_armed (1001)
\* and leaves commanded false.  Stated for a contactor that is off when the
\* request arrives.  Refuted: (int32_t)(millis() - g_armed_until_ms) is not
\* positive once 2^31 ms have passed since the (never set) end of the window.
C1_NotArmedRejected ==
  [][(/\ req'.name = "contactor.set"
      /\ req'.on
      /\ ~g_contactor_cmd
      /\ (~armed_ever \/ GtSmall(arm_age, ArmWindowMs)))
     => (/\ out' = <<ResError(IdOf(req'.id), clock', ErrNotArmed, "not_armed")>>
         /\ ~g_contactor_cmd')]_vars

\* C2: between operations commanded implies auxiliaryObserved, and a
\* contactor.set answered with aux_mismatch (1002) leaves both false.
C2_CommandedImpliesAux ==
  /\ g_contactor_cmd => g_contactor_aux
  /\ \A i \in 1..Len(out) :
       (out[i].type = "res" /\ out[i].code = ErrAuxMismatch)
         => (~g_contactor_cmd /\ ~g_contactor_aux)
\* a contactor.set{on:true} has closed the contactor
C2_Witness ==
  /\ req.name = "contactor.set"
  /\ req.on
  /\ g_contactor_cmd
  /\ g_contactor_aux

\* C3: with the contactor on and no sys.ping for more than 6000 ms, the loop
\* eventually forces commanded (and auxiliaryObserved) false unless a
\* sys.ping ends the silence first; a step writes at most one failsafe event,
\* and only when it turns a commanded contactor off, so no further event is
\* written until the contactor is commanded on again.  (After 2^32 ms of
\* silence the 32-bit difference starts again from 0, so the failsafe may
\* need up to 6001 ms more: a behaviour whose clock stops before that is
\* not held against the firmware.)
C3_KeepaliveFailsafe ==
  /\ Stale ~> (~Stale \/ ClockStoppedShort)
  /\ [][FailsafeCount(out') > 0
          => (/\ FailsafeCount(out') = 1
              /\ g_contactor_cmd
              /\ ~g_contactor_cmd'
              /\ ~g_contactor_aux')]_vars
\* the failsafe has fired after more than 6000 ms without a sys.ping
C3_Witness ==
  /\ FailsafeCount(out) = 1
  /\ GtSmall(ping_age, KeepaliveMs)
  /\ ~g_contactor_cmd
  /\ ~g_contactor_aux

\* C4: the failsafe forces the contactor off only when more than 6000 ms
\* have really elapsed since the most recent sys.ping.  Refuted: the check
\* uses the timestamp read at the start of the iteration, and a sys.ping
\* processed later in the same iteration stores a larger one.
C4_FailsafeOnlyWhenStale ==
  [][FailsafeCount(out') > 0 => GtSmall(ping_age', KeepaliveMs)]_vars

\* C5: after one contactor.set has returned a result, a second contactor.set
\* in the same armed window, without a new sys.arm, is rejected with
\* not_armed.  Refuted: the window is not closed by a successful set.
C5_OneSetPerWindow ==
  [][(/\ req'.name = "contactor.set"
      /\ armed_ever
      /\ ~GtSmall(arm_age, ArmWindowMs)
      /\ sets_since_arm >= 1)
     => out' = <<ResError(IdOf(req'.id), clock', ErrNotArmed, "not_armed")>>]_vars

C7_PwmRejectedInDcAuto ==
  [][(req'.name \in {"set_pwm", "enable_pwm"} /\ g_mode = "DC_AUTO")
     => (out' = <<LegacyFrame("error", "mode_dc_auto")>> /\ UNCHANGED cpVars)]_vars
\* a set_pwm has been rejected while the output was at 5 %
C7_Witness ==
  /\ req.name = "set_pwm"
  /\ g_mode = "DC_AUTO"
  /\ out = <<LegacyFrame("error", "mode_dc_auto")>>
  /\ ledc_duty = pct_to_duty(DcAutoDutyPct)

\* C8: a cp.set_thresholds command keeps the thresholds strictly ordered
\* t12 > t9 > t6 > t3 > t0 (a command that would break the order changes
\* nothing).  Refuted: the command stores whatever it is given.
C8_SetThresholdsKeepsOrder ==
  [][(req'.name = "cp.set_thresholds" /\ Ordered) => Ordered']_vars

\* C9: the operating mode is changed only by set_mode (and by the restart
\* that reset causes).  Refuted: restart_slac_hint always ends in DC_AUTO.
C9_ModeOnlyBySetMode ==
  [][req'.name \notin {"set_mode", "reset"} => g_mode' = g_mode]_vars

\* C10: whenever the mode is MANUAL and the manual enable flag is false, the
\* duty last written to the PWM hardware is the maximum duty.  Refuted:
\* set_mode does not write the duty, and the tick writes it in DC_AUTO only.
C10_ManualDisabledIsIdle ==
  (g_mode = "MANUAL" /\ ~g_pwm_enabled) => ledc_duty = CP_1_MAX_DUTY_CYCLE

\* C11: at the end of every periodic tick run in DC_AUTO, the duty written to
\* the PWM hardware and the reported pwm.out are 5 % when the committed pilot
\* state is B, C or D, and 100 % (maximum duty) when it is A, E or F.
C11_DcAutoDutyAfterTick ==
  (req.kind = "tick" /\ g_mode = "DC_AUTO") =>
    LET connected == g_last_cp_state \in {"B", "C", "D"}
        pct == IF connected THEN 5 ELSE 100
    IN  /\ ledc_duty = (CP_1_MAX_DUTY_CYCLE * pct) \div 100
        /\ g_last_output_duty_pct = pct
        /\ Len(out) = 1
        /\ out[1].type = "status"
        /\ out[1].st.state = g_last_cp_state
        /\ out[1].st.out = pct
\* a tick in DC_AUTO has committed state C and written 5 %
C11_Witness ==
  /\ req.kind = "tick"
  /\ g_mode = "DC_AUTO"
  /\ g_last_cp_state = "C"
  /\ ledc_duty = (CP_1_MAX_DUTY_CYCLE * 5) \div 100
  /\ out[1].st.out = 5

\* C12: a cp.auto_cal that measures an averaged idle plateau V at or above
\* the 2800 mV floor reports success and leaves t12 = floor(V*105/120),
\* t9 = floor(V*75/120), t6 = floor(V*45/120), t3 = floor(V*15/120), with t0,
\* hys and hys_ab as they were.
C12_AutoCalScalesThresholds ==
  [][(req'.name = "cp.auto_cal" /\ req'.mv >= 2800)
     => (/\ Len(out') = 2
         /\ out'[1] = LegacyFrame("ok", "")
         /\ out'[2].type = "status"
         /\ g_th_12' = (req'.mv * 105) \div 120
         /\ g_th_9' = (req'.mv * 75) \div 120
         /\ g_th_6' = (req'.mv * 45) \div 120
         /\ g_th_3' = (req'.mv * 15) \div 120
         /\ UNCHANGED <<g_th_0, g_hys, g_hys_ab>>)]_vars
\* a plateau exactly at the floor has been accepted, and a patched hys kept
C12_Witness ==
  /\ req.name = "cp.auto_cal"
  /\ req.mv = 2800
  /\ out[1].type = "ok"
  /\ g_th_12 = 2450
  /\ g_th_3 = 350
  /\ g_th_0 = CP_1_ADC_THRESHOLD_0
  /\ g_hys = 0

\* C13: a cp.auto_cal that fails (plateau below 2800 mV, or no valid burst:
\* plateau 0) answers error/cal_failed and leaves the seven thresholds, the
\* mode, the manual enable flag and the manual duty as they were; a successful
\* one also leaves mode, enable flag and duty as they were.
C13_AutoCalRestores ==
  [][req'.name = "cp.auto_cal"
     => /\ UNCHANGED <<g_mode, g_pwm_enabled, g_pwm_duty_pct>>
        /\ req'.mv < 2800
             => /\ UNCHANGED thVars
                /\ out'[1] = LegacyFrame("error", "cal_failed")]_vars

\* a calibration has failed in DC_AUTO with manual settings that differ from
\* the sampling configuration
C13_Witness ==
  /\ req.name = "cp.auto_cal"
  /\ req.mv = 2799
  /\ out[1].type = "error"
  /\ g_mode = "DC_AUTO"
  /\ g_pwm_enabled
  /\ g_pwm_duty_pct = 40

\* C18: get_status writes one status frame and changes nothing else: pilot
\* state, pending debounce state and count, mode, manual enable and duty,
\* frequency, the hardware duty, thresholds and the contactor state stay.
C18_GetStatusReadOnly ==
  [][req'.name = "get_status"
     => /\ UNCHANGED <<pwmVars, estVars, thVars, periphVars>>
        /\ out' = <<StatusFrame>>]_vars

\* get_status has been answered while a debounce was pending
C18_Witness ==
  /\ req.name = "get_status"
  /\ Len(out) = 1
  /\ out[1].type = "status"
  /\ g_pending_count > 0

(***************************************************************************)
(* SpecBand: cp_state_from_mv on its own                                   *)
(***************************************************************************)
\* ---- bounds: thresholds are multiples of LevelMv up to MaxLevel * LevelMv
MaxLevel == 7
LevelMv == 100
Levels == {LevelMv * k : k \in 1..MaxLevel}
\* the inputs: every threshold value, its neighbour below, and both ends
BandInputs == Levels \cup {l - 1 : l \in Levels} \cup {0, LevelMv * (MaxLevel + 1)}
CpStates == {"A", "B", "C", "D", "E", "F"}

\* the state after boot and one cp.set_thresholds that left ordered thresholds
InitBand ==
  /\ InitTime
  /\ InitPeriph
  /\ InitOutput
  /\ InitObs
  /\ InitLine
  /\ g_th_12 \in Levels
  /\ g_th_9 \in Levels
  /\ g_th_6 \in Levels
  /\ g_th_3 \in Levels
  /\ g_th_0 \in Levels
  /\ Ordered
  /\ g_hys = CP_1_ADC_HYSTERESIS
  /\ g_hys_ab = CP_1_ADC_HYSTERESIS_A2B

\* one call of cp_state_from_mv(mv): the argument in req, the result in ret
Classify(mv) ==
  /\ CpFrame
  /\ req' = [kind |-> "call", name |-> "cp_state_from_mv", id |-> 0, on |-> FALSE,
             mv |-> mv]
  /\ out' = <<>>
  /\ ret' = cp_state_from_mv(mv)
  /\ UNCHANGED <<pwmVars, estVars, thVars, last_same, flipped_from, run_cand, run_len,
                 lineVars>>

NextBand == \E mv \in BandInputs : Classify(mv)
SpecBand == InitBand /\ [][NextBand]_vars

\* C14: with t12 > t9 > t6 > t3 > t0, cp_state_from_mv returns A for
\* mv >= t12, B for t9 <= mv < t12, C for t6 <= mv < t9, D for t3 <= mv < t6,
\* E for t0 <= mv < t3 and F for mv < t0, and nothing else; each of the six
\* bands holds an input.
C14_SixBands ==
  (req.name = "cp_state_from_mv" /\ Ordered)
    => /\ ret \in CpStates
       /\ ret = "A" <=> req.mv >= g_th_12
       /\ ret = "B" <=> (g_th_9 <= req.mv /\ req.mv < g_th_12)
       /\ ret = "C" <=> (g_th_6 <= req.mv /\ req.mv < g_th_9)
       /\ ret = "D" <=> (g_th_3 <= req.mv /\ req.mv < g_th_6)
       /\ ret = "E" <=> (g_th_0 <= req.mv /\ req.mv < g_th_3)
       /\ ret = "F" <=> req.mv < g_th_0
       /\ \A s \in CpStates : \E mv \in BandInputs : cp_state_from_mv(mv) = s

\* the classifier has been called on the lower boundary of the B band
C14_Witness ==
  /\ req.name = "cp_state_from_mv"
  /\ Ordered
  /\ req.mv = g_th_9
  /\ ret = "B"

(***************************************************************************)
(* SpecEst: the estimator under ticks, threshold writes and calibration    *)
(***************************************************************************)
\* plateaus around the band boundaries and margins of the boot thresholds
\* and of the thresholds a calibration leaves
EstMvSet == {1000, 1200, 1800, 1900, 2200, 2350, 2450, 2600}
\* the plateau cp.auto_cal measures in SpecEst
EstCalPlateaus == {2800}

NextEst ==
  \/ \E mv \in EstMvSet : Tick(mv)
  \/ \E p \in Patches : CmdSetThresholds(p)
  \/ \E v12 \in EstCalPlateaus : CmdAutoCal(v12)
  \/ CmdReset
SpecEst == Init /\ [][NextEst]_vars

\* the plateau mv is within the margin of the band of state st: not below the
\* band's lower boundary minus hys (hys_ab for A), below its upper boundary
\* plus hys
InMargin(mv, st) ==
  CASE st = "A" -> mv >= g_th_12 - g_hys_ab
    [] st = "B" -> mv >= g_th_9 - g_hys /\ mv < g_th_12 + g_hys
    [] st = "C" -> mv >= g_th_6 - g_hys /\ mv < g_th_9 + g_hys
    [] st = "D" -> mv >= g_th_3 - g_hys /\ mv < g_th_6 + g_hys
    [] st = "E" -> mv >= g_th_0 - g_hys /\ mv < g_th_3 + g_hys
    [] OTHER -> mv < g_th_0 + g_hys

\* C15: with ordered thresholds, a tick whose plateau is within the margin of
\* the committed state's band leaves the committed state as it is (so it
\* stays through any sequence of such ticks).
C15_HeldWithinMargin ==
  [][(req'.kind = "tick" /\ Ordered /\ InMargin(req'.mv, g_last_cp_state))
     => g_last_cp_state' = g_last_cp_state]_vars

\* a tick has kept B on a plateau below the B band but within its margin
C15_Witness ==
  /\ req.kind = "tick"
  /\ Ordered
  /\ last_same
  /\ g_last_cp_state = "B"
  /\ req.mv < g_th_9
  /\ req.mv >= g_th_9 - g_hys

\* C16: when a tick's candidate equals the committed state X, a differing
\* candidate on the next tick does not change the committed state if the
\* tick after that yields candidate X again, whatever was pending.  Stated
\* on the third tick: it never yields the state X that such a second tick
\* has left.  Refuted: a tick refused as transient-low only decrements the
\* pending counter, so the pending transition survives it.
C16_SingleFlipNeverCommits ==
  [][(req'.kind = "tick" /\ flipped_from # "-")
     => cp_state_with_hysteresis(req'.mv, g_last_cp_state) # flipped_from]_vars

\* C20: the committed state changes to Y only on a tick that ends
\* confirm_needed or more consecutive accepted ticks with candidate Y
\* (confirm_needed of the committing tick: 2 when its plateau is strongly
\* inside Y's band, else 4).  Refuted: a refused tick in between only
\* decrements the pending counter.
C20_CommitNeedsConsecutiveRun ==
  [][(req'.kind = "tick" /\ g_last_cp_state' # g_last_cp_state)
     => /\ run_cand' = g_last_cp_state'
        /\ run_len' >= (IF mv_strong_in_state(req'.mv, g_last_cp_state') THEN 2 ELSE 4)]_vars

\* a tick that measures the plateau of the tick before it
RepeatTick(mv) == req.kind = "tick" /\ req.mv = mv /\ Tick(mv)

\* SpecEst with the periodic block running again and again: loop() enters
\* it every 200 ms, so a plateau that persists is sampled again as long as
\* sampling it changes anything
FairSpecEst == SpecEst /\ \A mv \in EstMvSet : WF_vars(RepeatTick(mv))

\* the last step was a tick in DC_AUTO, with ordered thresholds, on a plateau
\* strongly inside the B band
StrongBTick ==
  /\ req.kind = "tick"
  /\ g_mode = "DC_AUTO"
  /\ Ordered
  /\ mv_strong_in_state(req.mv, "B")
\* the last step wrote a status frame with state B and pwm.out 5
ShowsB ==
  /\ Len(out) = 1
  /\ out[1].type = "status"
  /\ out[1].st.state = "B"
  /\ out[1].st.out = DcAutoDutyPct

\* C17: in DC_AUTO with ordered thresholds, from whatever committed and
\* pending state, once every plateau is strongly inside the B band
\* (t9 + hys <= mv < t12 - hys) the status frames come to show state B and
\* pwm.out 5 and keep showing them.  Refuted: state A is left only below
\* t12 - hys_ab, and hys_ab may exceed hys.
C17_SettlesInB == <>[]StrongBTick => <>[]ShowsB

(***************************************************************************)
(* SpecLine: loop()'s line framing on the two transports                   *)
(***************************************************************************)
MaxLineLen == 240
\* ---- bounds and inputs
MaxLineBytes == 500       \* bytes fed between two newlines of a transport
\* runs of bytes that are no JSON (say 'x'), by length
JunkRuns == {120, 121}
PingLineLen == Len("{\"cmd\":\"ping\"}")

\* else if (c != '\r') { if (line.length() < 240) line += c; else line = ""; }
PushByte(buf) ==
  IF buf.len < MaxLineLen THEN [len |-> buf.len + 1, text |-> "junk"] ELSE EmptyLine

\* k bytes, one after the other: those that fit are appended; if one finds
\* the buffer full it empties it, and the bytes after it start again
RECURSIVE PushBytes(_, _)
PushBytes(buf, k) ==
  IF k = 0 THEN buf
  ELSE IF buf.len + k <= MaxLineLen THEN [len |-> buf.len + k, text |-> "junk"]
  ELSE PushBytes(PushByte([len |-> MaxLineLen, text |-> "junk"]),
                 k - (MaxLineLen - buf.len) - 1)

\* the bytes of {"cmd":"ping"}: they spell the command when nothing precedes
\* them in the buffer
PushPing(buf) ==
  IF buf.len = 0 THEN [len |-> PingLineLen, text |-> "ping"]
  ELSE PushBytes(buf, PingLineLen)

LineOf(t) == IF t = "uart" THEN line_uart ELSE line_usb
SetLine(t, buf) ==
  IF t = "uart" THEN line_uart' = buf /\ UNCHANGED line_usb
  ELSE line_usb' = buf /\ UNCHANGED line_uart

RxFrame == UNCHANGED <<timeVars, periphVars, histVars, pwmVars, estVars, thVars, obsVars>>

\* k bytes of junk arrive on transport t
RxJunk(t, k) ==
  /\ RxFrame
  /\ LineOf(t).text # "ping"
  /\ rx_bytes[t] + k <= MaxLineBytes
  /\ SetLine(t, PushBytes(LineOf(t), k))
  /\ rx_bytes' = [rx_bytes EXCEPT ![t] = @ + k]
  /\ req' = NoReq
  /\ out' = <<>>

\* the bytes of {"cmd":"ping"} arrive on transport t
RxPing(t) ==
  /\ RxFrame
  /\ LineOf(t).text # "ping"
  /\ rx_bytes[t] + PingLineLen <= MaxLineBytes
  /\ SetLine(t, PushPing(LineOf(t)))
  /\ rx_bytes' = [rx_bytes EXCEPT ![t] = @ + PingLineLen]
  /\ req' = NoReq
  /\ out' = <<>>

\* a carriage return arrives on transport t: skipped
RxCR(t) ==
  /\ RxFrame
  /\ UNCHANGED lineVars
  /\ req' = NoReq
  /\ out' = <<>>

\* a newline arrives on transport t: a non-empty buffer goes to process_line
\* and is cleared
RxNewline(t) ==
  LET buf == LineOf(t)
      name == IF buf.text = "ping" THEN "ping" ELSE "{not json"
  IN  /\ RxFrame
      /\ rx_bytes' = [rx_bytes EXCEPT ![t] = 0]
      /\ IF buf.len > 0
         THEN /\ SetLine(t, EmptyLine)
              /\ req' = LegacyReq(name)
              /\ out' = <<ReplyTo(name)>>
         ELSE /\ UNCHANGED <<line_uart, line_usb>>
              /\ req' = NoReq
              /\ out' = <<>>

NextLine ==
  \/ \E t \in Transports, k \in JunkRuns : RxJunk(t, k)
  \/ \E t \in Transports : RxPing(t)
  \/ \E t \in Transports : RxCR(t)
  \/ \E t \in Transports : RxNewline(t)
SpecLine == Init /\ [][NextLine]_vars

\* C19: on each transport, the newline that ends a line of more than 240
\* bytes hands nothing to process_line and writes no frame.  Refuted: the
\* 241st byte empties the buffer, the bytes after it are collected as a new
\* line, and the newline dispatches them.
C19_OversizedLineDiscarded ==
  [][\A t \in Transports :
       (rx_bytes[t] > MaxLineLen /\ rx_bytes'[t] = 0)
         => (req' = NoReq /\ out' = <<>>)]_vars

\* C21: a tick taken with committed state B, C or D whose plateau is below
\* t0 - 150 mV, or whose candidate is A with the plateau below
\* t12 + hys + 150 mV, leaves the committed state and the pending candidate
\* as they are and decreases the pending counter by one, not below 0.
C21_RefusedTickDecays ==
  [][(/\ req'.kind = "tick"
      /\ g_last_cp_state \in {"B", "C", "D"}
      /\ \/ req'.mv < g_th_0 - 150
         \/ /\ cp_state_with_hysteresis(req'.mv, g_last_cp_state) = "A"
            /\ req'.mv < g_th_12 + g_hys + 150)
     => /\ UNCHANGED <<g_last_cp_state, g_pending_state>>
        /\ g_pending_count' = IF g_pending_count > 0 THEN g_pending_count - 1 ELSE 0]_vars

\* an upward blip has been refused while a transition to C was pending
C21_Witness ==
  /\ req.kind = "tick"
  /\ run_len = 0
  /\ g_last_cp_state = "B"
  /\ cp_state_with_hysteresis(req.mv, "B") = "A"
  /\ g_pending_state = "C"
  /\ g_pending_count = 1

\* C22: when a set_freq command returns, in MANUAL and in DC_AUTO alike, the
\* duty in the PWM hardware is the one the mode's output policy asks for.
\* Refuted: configure_pwm() writes the duty in MANUAL only; in DC_AUTO the
\* register keeps whatever it held.
C22_SetFreqReappliesDuty ==
  [][req'.name = "set_freq"
     => ledc_duty' = IF g_mode' = "MANUAL"
                     THEN ManualDuty(g_pwm_enabled', g_pwm_duty_pct')
                     ELSE DcAutoDuty(g_last_cp_state')]_vars

\* C23: every status frame, from the periodic tick or from a command, has the
\* same fields, with all seven thresh entries t12, t9, t6, t3, t0, hys and
\* hys_ab.  Refuted: the frame the periodic block builds has no hys_ab.
C23_StatusFramesAlike ==
  \A i \in 1..Len(out) :
    out[i].type = "status"
      => /\ out[i].keys = StatusKeys
         /\ {e[1] : e \in out[i].st.thresh} = {"t12", "t9", "t6", "t3", "t0", "hys", "hys_ab"}

\* the thresholds are those of boot
BootThresholds ==
  thVars = <<CP_1_ADC_THRESHOLD_12, CP_1_ADC_THRESHOLD_9, CP_1_ADC_THRESHOLD_6,
             CP_1_ADC_THRESHOLD_3, CP_1_ADC_THRESHOLD_0, CP_1_ADC_HYSTERESIS,
             CP_1_ADC_HYSTERESIS_A2B>>
\* the plateau v is more than hys away from every threshold
FarFromThresholds(v) ==
  \A t \in {g_th_12, g_th_9, g_th_6, g_th_3, g_th_0} : v - t > g_hys \/ t - v > g_hys

\* C24: with the boot thresholds, once every tick measures the same plateau,
\* more than hys away from every threshold, the committed state comes to be
\* cp_state_from_mv of that plateau and stays so.  Refuted: in B, C or D a
\* plateau below t0 - 150 is refused as transient-low on every tick, and a
\* plateau in [t12 + hys, t12 + hys + 150) as an upward blip.
C24_ConstantPlateauSettles ==
  \A v \in EstMvSet :
    <>[](req.kind = "tick" /\ req.mv = v /\ BootThresholds /\ FarFromThresholds(v))
      => <>[](g_last_cp_state = cp_state_from_mv(v))

\* C25: a cp.auto_cal that succeeds on strictly ordered thresholds leaves
\* them strictly ordered, t12 > t9 > t6 > t3 > t0.  Refuted: t0 is kept, and
\* the scaled t6 and t3 fall below it.
C25_AutoCalKeepsOrder ==
  [][(req'.name = "cp.auto_cal" /\ out'[1].type = "ok" /\ Ordered) => Ordered']_vars

\* C26: a contactor.set is accepted (not answered with not_armed) if and only
\* if a sys.arm was processed at most 1500 ms of real time before it, over
\* the whole uptime.  Refuted: the signed 32-bit difference stops being
\* positive 2^31 ms after the end of the window, or after boot when no
\* sys.arm was ever issued.
C26_ArmedTestExact ==
  [][req'.name = "contactor.set"
     => ((out'[1].code # ErrNotArmed)
           <=> (armed_ever /\ ~GtSmall(arm_age, ArmWindowMs)))]_vars

\* C27: in every status frame, from the periodic tick or from a command,
\* pwm.out is the duty percentage last written to the PWM hardware.
\* Refuted: pwm.out is computed by the periodic block only, while commands
\* write the hardware duty (or change the mode) in between.
C27_PwmOutIsHardwareDuty ==
  \A i \in 1..Len(out) :
    out[i].type = "status" => ledc_duty = pct_to_duty(out[i].st.out)

====
